---- MODULE Spec2Model ----
(***************************************************************************)
(* Artifact registry, training orchestrator and inference resolver of the  *)
(* stock prediction service (ml/model_toolbox.py, ml/train_toolbox.py,     *)
(* ml/data_pipeline.py).                                                   *)
(*                                                                         *)
(* Text is modelled at the level the code inspects it.  A symbol, a key    *)
(* and a file stem are sequences of tokens: the separators "_" and "."     *)
(* and the blank " " are tokens of their own, every other token is a       *)
(* maximal run of characters that holds no separator.  replace, endswith,  *)
(* rsplit and the glob patterns of the code only ever look at separators,  *)
(* so they act on tokens exactly as they act on characters.                *)
(***************************************************************************)
EXTENDS Integers, Sequences, FiniteSets, TLC

VARIABLES
    files,     \* artifact storage (the models directory): file name -> content
    tpc,       \* position of the train_one call in progress
    tjob,      \* the train_one call in progress: symbol, algorithm, fitted pipeline
    runs,      \* number of train_one calls started so far
    trained,   \* the (symbol, algorithm) pairs for which train_one has returned
    result,    \* what the call that just completed returned or raised, until
               \* the caller takes it
    fcs,       \* the fetch_close_series call in progress
    batch      \* the train_many call in progress

vars == <<files, tpc, tjob, runs, trained, result, fcs, batch>>

----------------------------------------------------------------------------
(* Text helpers                                                            *)

Last(s) == s[Len(s)]

Front(s) == SubSeq(s, 1, Len(s) - 1)

\* str.replace(old, new) for a separator
Replace(s, old, new) == [i \in 1..Len(s) |-> IF s[i] = old THEN new ELSE s[i]]

\* str.endswith
EndsWith(s, suffix) ==
    /\ Len(s) >= Len(suffix)
    /\ SubSeq(s, Len(s) - Len(suffix) + 1, Len(s)) = suffix

\* str.startswith
StartsWith(s, prefix) ==
    /\ Len(s) >= Len(prefix)
    /\ SubSeq(s, 1, Len(prefix)) = prefix

\* "x" in s, for a separator x
Contains(s, x) == \E i \in 1..Len(s) : s[i] = x

\* str.upper on one token (the lower-case tokens the tickers below use)
UpperTok(t) ==
    CASE t = "aapl" -> "AAPL"
      [] t = "tcs"  -> "TCS"
      [] t = "ns"   -> "NS"
      [] t = "brk"  -> "BRK"
      [] t = "b"    -> "B"
      [] t = "zzz"  -> "ZZZ"
      [] OTHER      -> t

Upper(s) == [i \in 1..Len(s) |-> UpperTok(s[i])]

RECURSIVE LStrip(_)
LStrip(s) == IF s # <<>> /\ s[1] = " " THEN LStrip(Tail(s)) ELSE s

RECURSIVE RStrip(_)
RStrip(s) == IF s # <<>> /\ Last(s) = " " THEN RStrip(Front(s)) ELSE s

\* str.strip
Strip(s) == RStrip(LStrip(s))

----------------------------------------------------------------------------
(* Program constants                                                       *)

\* Algorithm names are text as well: "cnn_lstm" is the tokens cnn, _, lstm.
lstm == <<"lstm">>

ann == <<"ann">>

arima == <<"arima">>

gru == <<"gru">>

cnn_lstm == <<"cnn", "_", "lstm">>

xgboost == <<"xgboost">>

prophet == <<"prophet">>

best == <<"best">>

\* model_toolbox.Algorithm
Algorithms == {lstm, ann, arima, gru, cnn_lstm, xgboost, prophet}

\* the algorithms whose model is a .keras file
KerasAlgos == {lstm, ann, gru, cnn_lstm}

\* the algorithms that are fed scaled windows
ScaledAlgos == KerasAlgos \cup {xgboost}

US_STOCKS ==
    {"AAPL", "ADBE", "AMD", "AMZN", "GOOGL", "INTC", "JPM",
     "META", "MSFT", "NFLX", "NVDA", "TSLA", "V", "WMT",
     "BA", "BAC", "CRM", "CSCO", "DIS", "JNJ", "KO",
     "MA", "MCD", "NKE", "ORCL", "PEP", "PG", "PYPL"}

INDIAN_STOCKS ==
    {"HDFCBANK", "INFY", "RELIANCE", "TCS", "ICICIBANK",
     "SBIN", "WIPRO", "TITAN", "BAJFINANCE", "MARUTI",
     "HINDUNILVR", "BHARTIARTL", "ITC", "AXISBANK",
     "KOTAKBANK", "LT", "HCLTECH", "TECHM", "NESTLEIND",
     "SUNPHARMA", "DRREDDY", "CIPLA", "ONGC", "BPCL",
     "ADANIENT", "ADANIPORTS", "BAJAJ-AUTO", "INDUSINDBK",
     "M&M", "ASIANPAINT"}

\* data_pipeline.FEATURE_COLS
FEATURE_COLS ==
    <<"log_return", "sma_5", "sma_20", "sma_50", "ema_12", "ema_26",
      "macd", "macd_signal", "macd_hist", "rsi_14", "bb_pct", "atr_14",
      "volume_ratio", "momentum_1", "momentum_5", "momentum_10">>

\* the minimum input_days of predict_next_close
MinInputDays == 60

\* TrainConfig.seq_len
DefaultSeqLen == 60

\* run_pipeline: min_rows = cfg.seq_len + MinExtraRows
MinExtraRows == 20

\* train_*: len(X_train) < MinTrainWindows raises
MinTrainWindows == 10

----------------------------------------------------------------------------
(* File names                                                              *)

\* _model_key (model_toolbox and train_toolbox define it alike)
ModelKey(symbol) == Replace(symbol, ".", "_")

\* md / f"{key}_{algorithm}.keras" and md / f"{key}_{algorithm}.pkl"
ModelFile(key, a) ==
    [stem |-> key \o <<"_">> \o a,
     ext  |-> IF a \in KerasAlgos THEN "keras" ELSE "pkl"]

\* md / f"{key}_{algorithm}_pipeline.pkl"
PipeFile(key, a) ==
    [stem |-> key \o <<"_">> \o a \o <<"_", "pipeline">>, ext |-> "pkl"]

\* md / f"{key}_{algorithm}_scaler.pkl"
ScalerFile(key, a) ==
    [stem |-> key \o <<"_">> \o a \o <<"_", "scaler">>, ext |-> "pkl"]

\* Path.exists
Exists(fs, name) == name \in DOMAIN fs

----------------------------------------------------------------------------
(* Artifact registry                                                       *)

\* a registry that knows the current format only: the legacy scaler file does
\* not count as a companion
ArtifactsExistCurrentOnly(fs, symbol, a) ==
    LET key == Replace(symbol, ".", "_") IN
    IF a \in KerasAlgos \cup {xgboost}
    THEN /\ Exists(fs, ModelFile(key, a))
         /\ Exists(fs, PipeFile(key, a))
    ELSE a \in {arima, prophet} /\ Exists(fs, ModelFile(key, a))

\* model_artifacts_exist
ModelArtifactsExist(fs, symbol, a) ==
    LET key == ModelKey(symbol) IN
    IF a \in KerasAlgos THEN
        /\ Exists(fs, [stem |-> key \o <<"_">> \o a, ext |-> "keras"])
        /\ \/ Exists(fs, PipeFile(key, a))
           \/ Exists(fs, ScalerFile(key, a))
    ELSE IF a = arima THEN
        Exists(fs, [stem |-> key \o <<"_", "arima">>, ext |-> "pkl"])
    ELSE IF a = xgboost THEN
        /\ Exists(fs, [stem |-> key \o <<"_", "xgboost">>, ext |-> "pkl"])
        /\ \/ Exists(fs, PipeFile(key, xgboost))
           \/ Exists(fs, ScalerFile(key, xgboost))
    ELSE IF a = prophet THEN
        Exists(fs, [stem |-> key \o <<"_", "prophet">>, ext |-> "pkl"])
    ELSE FALSE

\* the glob patterns of list_available_models, "*<suffix>.<ext>"
ListPatterns ==
    {[suffix |-> <<"_", "lstm">>,             ext |-> "keras"],
     [suffix |-> <<"_", "ann">>,              ext |-> "keras"],
     [suffix |-> <<"_", "gru">>,              ext |-> "keras"],
     [suffix |-> <<"_", "cnn", "_", "lstm">>, ext |-> "keras"],
     [suffix |-> <<"_", "arima">>,            ext |-> "pkl"],
     [suffix |-> <<"_", "xgboost">>,          ext |-> "pkl"],
     [suffix |-> <<"_", "prophet">>,          ext |-> "pkl"]}

\* md.glob("*<suffix>.<ext>")
GlobSuffix(fs, pattern) ==
    {n \in DOMAIN fs : n.ext = pattern.ext /\ EndsWith(n.stem, pattern.suffix)}

\* position of the last "_" of a stem, 0 when it has none
LastUnderscore(stem) ==
    LET at == {i \in 1..Len(stem) : stem[i] = "_"} IN
    IF at = {} THEN 0 ELSE CHOOSE i \in at : \A j \in at : j <= i

\* stem.rsplit("_", 1): <<key, algo>>, or <<stem>> when there is no "_"
RSplit(stem) ==
    LET i == LastUnderscore(stem) IN
    IF i = 0 THEN <<stem>>
    ELSE <<SubSeq(stem, 1, i - 1), SubSeq(stem, i + 1, Len(stem))>>

\* symbol = key.replace("_", ".") in list_available_models
DecodeKey(key) == Replace(key, "_", ".")

\* the (symbol, algo) entries list_available_models adds to models_map
ListEntries(fs) ==
    {<<DecodeKey(RSplit(n.stem)[1]), RSplit(n.stem)[2]>> :
        n \in {m \in UNION {GlobSuffix(fs, p) : p \in ListPatterns} :
                    Len(RSplit(m.stem)) = 2}}

\* the order sorted() gives the algorithm names
NameRank(a) ==
    CASE a = ann      -> 1
      [] a = arima    -> 2
      [] a = cnn_lstm -> 3
      [] a = gru      -> 4
      [] a = lstm     -> 5
      [] a = prophet  -> 6
      [] a = xgboost  -> 7
      [] OTHER        -> 8

\* sorted(list(algos))
RECURSIVE Sorted(_)
Sorted(S) ==
    IF S = {} THEN <<>>
    ELSE LET m == CHOOSE x \in S : \A y \in S : NameRank(x) <= NameRank(y)
         IN <<m>> \o Sorted(S \ {m})

\* list_available_models: symbol -> sorted list of algorithms
ListAvailableModels(fs) ==
    LET entries == ListEntries(fs) IN
    [symbol \in {e[1] : e \in entries} |->
        Sorted({e[2] : e \in {x \in entries : x[1] = symbol}})]

\* "a in algos" for a list
InList(a, algos) == \E i \in 1..Len(algos) : algos[i] = a

\* the branch of load_best_models for one symbol
BestOf(algos) ==
    IF InList(lstm, algos) THEN lstm
    ELSE IF InList(gru, algos) THEN gru
    ELSE IF InList(cnn_lstm, algos) THEN cnn_lstm
    ELSE algos[1]

\* load_best_models: symbol -> algorithm
LoadBestModels(fs) ==
    LET available == ListAvailableModels(fs) IN
    [symbol \in {s \in DOMAIN available : available[s] # <<>>} |->
        BestOf(available[symbol])]

\* any(md.glob(f"{key}_*.<ext>"))
AnyGlobPrefix(fs, key, ext) ==
    \E n \in DOMAIN fs : n.ext = ext /\ StartsWith(n.stem, key \o <<"_">>)

\* a normalizer that looks the base name up before it looks for a dot
NormalizeSuffixFirst(fs, ticker) ==
    LET s0 == Upper(Strip(ticker)) IN
    IF s0 # <<>> /\ s0[1] \in INDIAN_STOCKS THEN s0 \o <<".", "NS">>
    ELSE s0

\* a normalizer without the list of Indian base names
NormalizeNoIndianList(fs, ticker) ==
    LET s0 == Upper(Strip(ticker))
        s1 == IF EndsWith(s0, <<"_", "NS">>)
              THEN SubSeq(s0, 1, Len(s0) - 2) \o <<".", "NS">>
              ELSE s0
        withNS == s1 \o <<".", "NS">>
    IN
    IF Contains(s1, ".") THEN s1
    ELSE IF \/ AnyGlobPrefix(fs, Replace(withNS, ".", "_"), "keras")
            \/ AnyGlobPrefix(fs, Replace(withNS, ".", "_"), "pkl")
         THEN withNS
    ELSE s1

\* normalize_symbol
NormalizeSymbol(fs, ticker) ==
    LET s0 == Upper(Strip(ticker))
        s1 == IF EndsWith(s0, <<"_", "NS">>)
              THEN SubSeq(s0, 1, Len(s0) - 2) \o <<".", "NS">>
              ELSE s0
        withNS == s1 \o <<".", "NS">>
    IN
    IF Contains(s1, ".") THEN s1
    ELSE IF Len(s1) = 1 /\ s1[1] \in US_STOCKS THEN s1
    ELSE IF Len(s1) = 1 /\ s1[1] \in INDIAN_STOCKS THEN withNS
    ELSE IF \/ AnyGlobPrefix(fs, ModelKey(withNS), "keras")
            \/ AnyGlobPrefix(fs, ModelKey(withNS), "pkl")
         THEN withNS
    ELSE s1

----------------------------------------------------------------------------
(* Data pipeline, as far as the artifacts depend on it                     *)

Min(a, b) == IF a <= b THEN a ELSE b

\* the columns add_technical_indicators appends to a frame with columns raw
IndicatorCols(raw) ==
    {"log_return", "sma_5", "sma_20", "sma_50", "ema_12", "ema_26",
     "macd", "macd_signal", "macd_hist", "rsi_14", "bb_upper", "bb_lower",
     "bb_pct", "momentum_1", "momentum_5", "momentum_10"}
    \cup (IF {"High", "Low"} \subseteq raw THEN {"atr_14"} ELSE {})
    \cup (IF "Volume" \in raw THEN {"volume_ratio"} ELSE {})

\* [col for col in cols if col in present]
Filter(cols, present) ==
    LET Keep(c) == c \in present IN SelectSeq(cols, Keep)

\* train_val_split: split = int(len(X) * (1.0 - 0.1))
SplitIndex(n) == (n * 9) \div 10

\* run_pipeline on the provider's answer data = [raw, rows, cols]: raw rows
\* fetched, rows left after cleaning and the undefined-row drop
RunPipeline(cfg, data) ==
    LET dfcols   == IF cfg.use_features
                    THEN data.cols \cup IndicatorCols(data.cols)
                    ELSE data.cols
        avail    == Filter(FEATURE_COLS, dfcols)
        used     == <<"Close">> \o avail
        min_rows == cfg.seq_len + MinExtraRows
        windows  == IF data.rows > cfg.seq_len THEN data.rows - cfg.seq_len ELSE 0
    IN
    IF data.raw = 0 THEN [ok |-> FALSE, error |-> "ValueError"]
    ELSE IF data.rows < min_rows THEN [ok |-> FALSE, error |-> "ValueError"]
    ELSE [ok           |-> TRUE,
          feature_cols |-> avail,
          fit_cols     |-> IF cfg.use_features /\ avail # <<>> THEN used ELSE <<"Close">>,
          n_features   |-> IF cfg.use_features /\ avail # <<>> THEN Len(used) ELSE 1,
          seq_len      |-> cfg.seq_len,
          x_train      |-> SplitIndex(windows)]

----------------------------------------------------------------------------
(* Artifact storage                                                        *)

\* what a stored file holds.  kind: "model", "pipeline" (the bundle of
\* scalers and feature_cols) or "scaler" (a legacy close-only scaler);
\* symbol: the symbol whose data it was fitted on; run: the train_one call
\* that wrote it (0: a file of an earlier release); fit_cols: the column
\* order the scalers were fitted in and the windows were built from
Content(kind, run, symbol, a, seq_len, feature_cols, fit_cols) ==
    [kind |-> kind, run |-> run, symbol |-> symbol, algo |-> a,
     seq_len |-> seq_len, feature_cols |-> feature_cols, fit_cols |-> fit_cols]

NoContent == Content("none", 0, <<>>, <<>>, 0, <<>>, <<>>)

\* joblib.dump / model.save: create or overwrite
Write(fs, name, content) == (name :> content) @@ fs

NoJob == [symbol |-> <<>>, algo |-> <<>>, run |-> 0, pipe |-> [ok |-> FALSE]]

TrainResult(s, a, outcome) ==
    [op |-> "train_one", symbol |-> s, algo |-> a, outcome |-> outcome]

----------------------------------------------------------------------------
(* Training orchestrator                                                   *)

\* download_close for arima and prophet: the cleaned Close series is used whole
DirectFit == [ok |-> TRUE, feature_cols |-> <<>>, fit_cols |-> <<>>,
              n_features |-> 0, seq_len |-> 0, x_train |-> 0]

\* what train_<algorithm> computes before it writes anything
FitFor(a, cfg, data) ==
    IF a \in ScaledAlgos THEN
        LET pipe == RunPipeline(cfg, data) IN
        IF pipe.ok /\ pipe.x_train < MinTrainWindows
        THEN [ok |-> FALSE, error |-> "ValueError"]
        ELSE pipe
    ELSE IF data.raw = 0 \/ data.rows = 0
         THEN [ok |-> FALSE, error |-> "ValueError"]
    ELSE DirectFit

\* the training endpoint normalizes the ticker (app.py), then train_one
\* dispatches on the algorithm and the pipeline is run and the model fitted
TrainBegin(ticker, a, cfg, data, max_runs) ==
    LET s   == NormalizeSymbol(files, ticker)
        fit == FitFor(a, cfg, data)
    IN
    /\ tpc = "idle"
    /\ IF a \notin Algorithms THEN
           /\ result' = TrainResult(s, a, "ValueError: Unknown algorithm")
           /\ UNCHANGED <<files, tpc, tjob, runs, trained>>
       ELSE IF ~fit.ok THEN
           /\ result' = TrainResult(s, a, fit.error)
           /\ UNCHANGED <<files, tpc, tjob, runs, trained>>
       ELSE
           /\ runs < max_runs
           /\ runs' = runs + 1
           /\ tjob' = [symbol |-> s, algo |-> a, run |-> runs + 1, pipe |-> fit]
           /\ tpc' = "save_model"
           /\ UNCHANGED <<files, trained, result>>

\* model.save(md / f"{key}_<algo>.keras") or joblib.dump(model, ...pkl);
\* arima and prophet return after this one write
TrainSaveModel ==
    LET s == tjob.symbol
        a == tjob.algo
    IN
    /\ tpc = "save_model"
    /\ files' = Write(files, ModelFile(ModelKey(s), a),
                      Content("model", tjob.run, s, a, tjob.pipe.seq_len,
                              <<>>, tjob.pipe.fit_cols))
    /\ IF a \in ScaledAlgos THEN
           /\ tpc' = "save_pipe"
           /\ UNCHANGED <<tjob, runs, trained, result>>
       ELSE
           /\ tpc' = "idle"
           /\ tjob' = NoJob
           /\ trained' = trained \cup {<<s, a>>}
           /\ result' = TrainResult(s, a, "ok")
           /\ UNCHANGED runs

\* joblib.dump({"scalers": ..., "feature_cols": ...}, ..._pipeline.pkl), return
TrainSavePipe ==
    LET s == tjob.symbol
        a == tjob.algo
    IN
    /\ tpc = "save_pipe"
    /\ files' = Write(files, PipeFile(ModelKey(s), a),
                      Content("pipeline", tjob.run, s, a, tjob.pipe.seq_len,
                              tjob.pipe.feature_cols, tjob.pipe.fit_cols))
    /\ tpc' = "idle"
    /\ tjob' = NoJob
    /\ trained' = trained \cup {<<s, a>>}
    /\ result' = TrainResult(s, a, "ok")
    /\ UNCHANGED runs

\* a save raises (OSError) or the worker is stopped: train_one ends without
\* writing what it had left to write
TrainFail ==
    /\ tpc \in {"save_model", "save_pipe"}
    /\ tpc' = "idle"
    /\ tjob' = NoJob
    /\ result' = TrainResult(tjob.symbol, tjob.algo, "OSError")
    /\ UNCHANGED <<files, runs, trained>>

----------------------------------------------------------------------------
(* Inference resolver                                                      *)

Fetch(fn, symbol, period) == [fn |-> fn, symbol |-> symbol, period |-> period]

\* the record of one predict_next_close call: its arguments, what it resolved,
\* the provider fetches it made in order, the scaler it applied and the
\* columns it scaled, the rows the window is cut from (clean_rows), the
\* argument of tail() and the rows of the window, and how it ended ("ok": a
\* PredictionResult was returned)
Prediction(ticker, d, algorithm, fixed) ==
    [op |-> "predict", ticker |-> ticker, input_days |-> d, algorithm |-> algorithm,
     fixed_symbol |-> fixed, algo_used |-> <<>>, outcome |-> "ok", path |-> "none",
     fetches |-> <<>>, scaler |-> NoContent, scaled_cols |-> <<>>,
     model |-> NoContent, clean_rows |-> 0, tail |-> 0, window_rows |-> 0,
     input_days_used |-> 0]

\* a resolver that takes input_days as given
ClampDaysNone(d) == d

\* "if input_days < 60: input_days = 60"
ClampDays(d) == IF d < MinInputDays THEN MinInputDays ELSE d

\* a resolver that takes a named algorithm without asking the registry
FoundUnchecked(fs, fixed, algorithm) ==
    algorithm = best => fixed \in DOMAIN LoadBestModels(fs)

\* the algorithm resolution of predict_next_close: FALSE where it raises
\* FileNotFoundError
Found(fs, fixed, algorithm) ==
    IF algorithm = best THEN fixed \in DOMAIN LoadBestModels(fs)
    ELSE ModelArtifactsExist(fs, fixed, algorithm)

\* a resolver that recomputes the columns from the default list
UsedColsDefault(feat_cols) == <<"Close">> \o FEATURE_COLS

\* used_cols = ["Close"] + feat_cols, the order scalers.transform keeps
UsedCols(feat_cols) == <<"Close">> \o feat_cols

\* a resolver that probes the legacy scaler file first
SchemeLegacyFirst(fs, key, a) ==
    IF Exists(fs, ScalerFile(key, a)) THEN "legacy"
    ELSE IF Exists(fs, PipeFile(key, a)) THEN "current"
    ELSE "none"

\* which companion file decides the path: "if pipe_path.exists() ... elif
\* scaler_path.exists() ... else raise"
Scheme(fs, key, a) ==
    IF Exists(fs, PipeFile(key, a)) THEN "current"
    ELSE IF Exists(fs, ScalerFile(key, a)) THEN "legacy"
    ELSE "none"

\* model.predict(X): the network and the regressor were built for windows of
\* seq_len rows by n_features columns (input_shape) and reject any other
ModelAccepts(model, rows, cols) ==
    /\ rows = model.seq_len
    /\ Len(cols) = Len(model.fit_cols)

\* the branch of predict_next_close for lstm, ann, gru, cnn_lstm and xgboost,
\* after the close series was fetched.  env is what the provider and the
\* model loader answer: closes (rows of the close series), raw (OHLCV rows
\* fetched), rows (rows left after cleaning and the undefined-row drop),
\* cols (the provider's columns), load (whether the model file loads)
PredictScaled(fs, r, days, env) ==
    LET key    == ModelKey(r.fixed_symbol)
        a      == r.algo_used
        mfile  == ModelFile(key, a)
        pfile  == PipeFile(key, a)
        sfile  == ScalerFile(key, a)
        r1     == [r EXCEPT !.model = IF Exists(fs, mfile) THEN fs[mfile] ELSE NoContent]
    IN
    IF ~Exists(fs, mfile) \/ env.load # "ok" THEN
        [r EXCEPT !.outcome = "LoadError"]
    ELSE IF Scheme(fs, key, a) = "current" THEN
        LET feat   == fs[pfile].feature_cols
            dfcols == IF feat # <<>> THEN env.cols \cup IndicatorCols(env.cols)
                      ELSE env.cols
            used   == UsedCols(feat)
            r2     == [r1 EXCEPT !.path = "current",
                                 !.fetches = @ \o <<Fetch("fetch_ohlcv", r.fixed_symbol, days + 90)>>]
        IN
        IF env.raw = 0 THEN [r2 EXCEPT !.outcome = "ValueError"]
        ELSE IF \E i \in 1..Len(used) : used[i] \notin dfcols
             THEN [r2 EXCEPT !.outcome = "KeyError"]
        ELSE IF a \in KerasAlgos /\ env.rows < days
             THEN [r2 EXCEPT !.clean_rows = env.rows, !.outcome = "ValueError"]
        ELSE LET r3 == [r2 EXCEPT !.clean_rows = env.rows,
                                  !.tail = days,
                                  !.window_rows = Min(env.rows, days),
                                  !.scaler = fs[pfile],
                                  !.scaled_cols = used]
             IN
             IF ~ModelAccepts(fs[mfile], r3.window_rows, used)
             THEN [r3 EXCEPT !.outcome = "ValueError: input shape"]
             ELSE [r3 EXCEPT !.input_days_used = days]
    ELSE IF Scheme(fs, key, a) = "legacy" THEN
        LET r2 == [r1 EXCEPT !.path = "legacy",
                             !.clean_rows = env.closes,
                             !.tail = days,
                             !.window_rows = Min(env.closes, days),
                             !.scaler = fs[sfile],
                             !.scaled_cols = <<"Close">>]
        IN
        IF r2.window_rows # days
        THEN [r2 EXCEPT !.outcome = "ValueError: reshape"]
        ELSE IF ~ModelAccepts(fs[mfile], days, <<"Close">>)
             THEN [r2 EXCEPT !.outcome = "ValueError: input shape"]
        ELSE [r2 EXCEPT !.input_days_used = days]
    ELSE [r1 EXCEPT !.outcome = "FileNotFoundError"]

\* the branch for arima and prophet: the fitted object forecasts by itself
PredictDirect(fs, r, days, env) ==
    LET mfile == ModelFile(ModelKey(r.fixed_symbol), r.algo_used) IN
    IF ~Exists(fs, mfile) \/ env.load # "ok"
    THEN [r EXCEPT !.outcome = "LoadError"]
    ELSE [r EXCEPT !.model = fs[mfile], !.path = "direct", !.input_days_used = days]

\* predict_next_close(ticker, input_days, algorithm)
PredictNextClose(fs, ticker, d, algorithm, env) ==
    LET fixed       == NormalizeSymbol(fs, ticker)
        best_models == LoadBestModels(fs)
        r0          == Prediction(ticker, d, algorithm, fixed)
        found       == Found(fs, fixed, algorithm)
        algo_to_use == IF algorithm = best THEN best_models[fixed] ELSE algorithm
        days        == ClampDays(d)
    IN
    IF ~found THEN [r0 EXCEPT !.outcome = "FileNotFoundError"]
    ELSE
        LET r1 == [r0 EXCEPT !.algo_used = algo_to_use,
                             !.fetches = <<Fetch("fetch_close_series", fixed, days + 30)>>]
        IN
        IF env.closes = 0 THEN [r1 EXCEPT !.outcome = "ValueError"]
        ELSE IF algo_to_use \in ScaledAlgos THEN PredictScaled(fs, r1, days, env)
        ELSE IF algo_to_use \in {arima, prophet} THEN PredictDirect(fs, r1, days, env)
        ELSE [r1 EXCEPT !.outcome = "ValueError: Unknown algorithm"]

\* one prediction request, served to the end
Predict(ticker, d, algorithm, env) ==
    /\ result' = PredictNextClose(files, ticker, d, algorithm, env)
    /\ UNCHANGED <<files, tpc, tjob, runs, trained>>

\* one registry query: model_artifacts_exist(symbol, algorithm)
ArtifactsExist(symbol, a) ==
    /\ result' = [op |-> "exists", symbol |-> symbol, algo |-> a,
                  value |-> ModelArtifactsExist(files, symbol, a)]
    /\ UNCHANGED <<files, tpc, tjob, runs, trained>>

\* one registry query: list_available_models and load_best_models
ListModels ==
    /\ result' = [op |-> "list", available |-> ListAvailableModels(files),
                  best_models |-> LoadBestModels(files)]
    /\ UNCHANGED <<files, tpc, tjob, runs, trained>>

----------------------------------------------------------------------------
(* The service: inputs, initial storage, next-state relation               *)

OHLCV == {"Open", "High", "Low", "Close", "Volume"}

\* the tickers requests carry
Tickers ==
    {<<"aapl">>, <<"BRK", "_", "B">>, <<"BRK", ".", "B">>, <<" ", "tcs", "_", "ns">>}

\* an algorithm name outside the seven
svm == <<"svm">>

\* TrainConfig as the endpoints build it
DefaultConfig == [seq_len |-> DefaultSeqLen, use_features |-> TRUE]

\* the close-only mode
CloseOnlyConfig == [seq_len |-> DefaultSeqLen, use_features |-> FALSE]

\* what the provider may answer a training fetch: nothing, too few rows, enough
NoData == [raw |-> 0, rows |-> 0, cols |-> OHLCV]

ShortData == [raw |-> 120, rows |-> 79, cols |-> OHLCV]

FullData == [raw |-> 300, rows |-> 250, cols |-> OHLCV]

NoVolumeData == [raw |-> 300, rows |-> 250, cols |-> OHLCV \ {"Volume"}]

\* what the provider and the model loader may answer a prediction: enough of
\* everything, or one of the answers short
GoodEnv == [closes |-> 62, raw |-> 180, rows |-> 130, cols |-> OHLCV, load |-> "ok"]

PredictEnvs ==
    {GoodEnv,
     [GoodEnv EXCEPT !.closes = 0],
     [GoodEnv EXCEPT !.closes = 40],
     [GoodEnv EXCEPT !.raw = 0, !.rows = 0],
     [GoodEnv EXCEPT !.raw = 100, !.rows = 50],
     [GoodEnv EXCEPT !.load = "error"]}

\* artifacts of the earlier release: a model with its close-only scaler file
LegacyStore(s, a) ==
    (ModelFile(ModelKey(s), a) :> Content("model", 0, s, a, DefaultSeqLen, <<>>, <<"Close">>))
    @@ (ScalerFile(ModelKey(s), a) :> Content("scaler", 0, s, a, DefaultSeqLen, <<>>, <<"Close">>))

EmptyStore == [n \in {} |-> NoContent]

NoResult == [op |-> "none"]

\* no fetch_close_series call in progress
NoFetch == [pc |-> "idle", symbol |-> <<>>, period |-> 0, attempt |-> 0, log |-> <<>>]

\* no train_many call in progress
NoBatch == [pc |-> "idle", symbols |-> <<>>, algos |-> <<>>, i |-> 0, j |-> 0,
            results |-> <<>>, attempts |-> <<>>]

\* the state after start-up over the storage store
InitWith(store) ==
    /\ files = store
    /\ tpc = "idle"
    /\ tjob = NoJob
    /\ runs = 0
    /\ trained = {}
    /\ result = NoResult
    /\ fcs = NoFetch
    /\ batch = NoBatch

\* the caller takes the result of the call that completed
Return ==
    /\ result # NoResult
    /\ result' = NoResult
    /\ UNCHANGED <<files, tpc, tjob, runs, trained, fcs, batch>>

\* requests are served one after the other, a training run that has begun
\* goes on between them.  TT, TA, TV: the tickers, algorithms and
\* <<config, provider answer>> pairs of training requests, of which at most R
\* get as far as fitting a model; PT, PD, PA, PE: the tickers, input_days,
\* algorithms and environments of predictions
NextOver(R, TT, TA, TV, PT, PD, PA, PE) ==
    \/ /\ result = NoResult
       /\ UNCHANGED <<fcs, batch>>
       /\ \/ \E t \in TT, a \in TA, v \in TV : TrainBegin(t, a, v[1], v[2], R)
          \/ \E t \in PT, d \in PD, a \in PA, env \in PE : Predict(t, d, a, env)
          \/ ListModels
          \/ TrainSaveModel
          \/ TrainSavePipe
          \/ TrainFail
    \/ Return

\* The service over several symbols
InitStores == {EmptyStore, LegacyStore(<<"AAPL">>, lstm)}

Init == \E store \in InitStores : InitWith(store)

\* the training runs one behaviour of Spec holds
MaxRuns == 2

Next ==
    NextOver(MaxRuns, Tickers, {lstm, cnn_lstm, arima, xgboost, svm},
             {<<DefaultConfig, ShortData>>, <<DefaultConfig, FullData>>},
             Tickers, {MinInputDays}, Algorithms \cup {best, svm},
             {GoodEnv, [GoodEnv EXCEPT !.closes = 0]})

Spec == Init /\ [][Next]_vars

\* The service over one symbol, with every algorithm, both training modes
\* and every answer of the provider
InitStoresOne ==
    {EmptyStore, LegacyStore(<<"TCS", ".", "NS">>, lstm),
     LegacyStore(<<"TCS", ".", "NS">>, xgboost)}

InitOne == \E store \in InitStoresOne : InitWith(store)

\* the training runs one behaviour of SpecOne holds
MaxRunsOne == 1

NextOne ==
    NextOver(MaxRunsOne, {<<" ", "tcs", "_", "ns">>}, Algorithms \cup {svm},
             {<<DefaultConfig, NoData>>, <<DefaultConfig, FullData>>,
              <<DefaultConfig, NoVolumeData>>, <<CloseOnlyConfig, FullData>>},
             {<<"tcs">>}, {7, 60, 61}, Algorithms \cup {best, svm},
             PredictEnvs \cup {[GoodEnv EXCEPT !.cols = OHLCV \ {"Volume"}]})

SpecOne == InitOne /\ [][NextOne]_vars

\* The registry queries over any storage: the files two symbols with one key
\* can have, present or absent in any combination of at most MaxStoreFiles
MaxStoreFiles == 3

StoreKey == <<"BRK", "_", "B">>

StoreNames ==
    {ModelFile(StoreKey, a) : a \in Algorithms}
    \cup {PipeFile(StoreKey, a) : a \in ScaledAlgos}
    \cup {ScalerFile(StoreKey, a) : a \in ScaledAlgos}

\* a file of unknown origin
Stored(name) ==
    Content(IF Last(name.stem) = "pipeline" THEN "pipeline"
            ELSE IF Last(name.stem) = "scaler" THEN "scaler" ELSE "model",
            0, <<"BRK", ".", "B">>, <<>>, DefaultSeqLen, <<>>, <<"Close">>)

Stores ==
    {[n \in names |-> Stored(n)] :
        names \in {S \in SUBSET StoreNames : Cardinality(S) <= MaxStoreFiles}}

InitStore == \E store \in Stores : InitWith(store)

NextStore ==
    \/ /\ result = NoResult
       /\ UNCHANGED <<fcs, batch>>
       /\ \/ \E s \in {<<"BRK", ".", "B">>, <<"BRK", "_", "B">>, <<"AAPL">>},
                a \in Algorithms \cup {best, svm} : ArtifactsExist(s, a)
          \/ ListModels
    \/ Return

SpecStore == InitStore /\ [][NextStore]_vars

----------------------------------------------------------------------------
(* normalize_symbol while the storage changes                              *)

\* one call of normalize_symbol, and a second one on what it returned
NormalizeQuery(ticker) ==
    /\ result' = [op |-> "normalize", ticker |-> ticker,
                  value |-> NormalizeSymbol(files, ticker),
                  again |-> NormalizeSymbol(files, NormalizeSymbol(files, ticker))]
    /\ UNCHANGED <<files, tpc, tjob, runs, trained, fcs, batch>>

\* tickers as users write them: lower case, blanks around, "_NS" for ".NS",
\* with and without the market suffix, in and outside the two lists
NormTickers ==
    {<<"zzz">>, <<"zzz", ".", "ns">>, <<"ZZZ", "_", "NS">>, <<"aapl">>, <<"tcs">>,
     <<" ", "tcs", "_", "ns", " ">>, <<"TCS", ".", "NS">>, <<"BRK", "_", "B">>}

\* the training runs one behaviour of SpecNorm holds
MaxRunsNorm == 2

InitNorm == InitWith(EmptyStore)

NextNorm ==
    \/ NextOver(MaxRunsNorm, {<<"zzz">>, <<"zzz", ".", "ns">>}, {lstm, arima},
                {<<DefaultConfig, FullData>>}, {<<"zzz">>}, {MinInputDays}, {best},
                {GoodEnv})
    \/ /\ result = NoResult
       /\ \E t \in NormTickers : NormalizeQuery(t)

SpecNorm == InitNorm /\ [][NextNorm]_vars

----------------------------------------------------------------------------
(* fetch_close_series, one provider call at a time                         *)

\* "for attempt in range(3)"
MaxAttempts == 3

\* "time.sleep(2 * attempt)"
BackoffUnit == 2

\* a wait that does not grow with the attempt
FetchWaitFlat(attempt) == BackoffUnit

\* the wait before attempt number attempt (0, 1, 2), taken "if attempt"
FetchWait(attempt) == BackoffUnit * attempt

\* what yf.download may answer: nothing, a frame with close values, a frame
\* without a Close column, a frame whose Close values are all undefined
Responses == {"empty", "data", "noclose", "nanclose"}

\* the statements after the loop, on the non-empty answer that ended it
CloseOf(resp) ==
    IF resp = "data" THEN "ok" ELSE "ValueError: No close data"

FetchResult(f, log, outcome) ==
    [op |-> "fetch_close_series", symbol |-> f.symbol, period |-> f.period,
     outcome |-> outcome, log |-> log]

\* fetch_close_series(symbol, period) is entered: attempt 0 waits for nothing
FetchStart(symbol, period) ==
    /\ fcs.pc = "idle"
    /\ fcs' = [pc |-> "download", symbol |-> symbol, period |-> period,
               attempt |-> 0, log |-> <<>>]
    /\ UNCHANGED result

\* time.sleep(2 * attempt)
FetchSleep ==
    /\ fcs.pc = "sleep"
    /\ fcs' = [fcs EXCEPT !.pc = "download",
                          !.log = Append(@, [ev |-> "sleep", secs |-> FetchWait(fcs.attempt)])]
    /\ UNCHANGED result

\* data = yf.download(...); break on a non-empty answer, else the next
\* attempt, and after the last one the loop's else clause raises
FetchDownload(resp) ==
    LET log == Append(fcs.log, [ev |-> "download", resp |-> resp]) IN
    /\ fcs.pc = "download"
    /\ IF resp # "empty" THEN
           /\ result' = FetchResult(fcs, log, CloseOf(resp))
           /\ fcs' = NoFetch
       ELSE IF fcs.attempt + 1 < MaxAttempts THEN
           /\ fcs' = [fcs EXCEPT !.pc = "sleep", !.attempt = @ + 1, !.log = log]
           /\ UNCHANGED result
       ELSE
           /\ result' = FetchResult(fcs, log, "ValueError: No data returned")
           /\ fcs' = NoFetch

\* the symbols and periods the callers pass (input_days + 30, default 60)
FetchSymbols == {<<"AAPL">>, <<"TCS", ".", "NS">>, <<"BRK", ".", "B">>}

FetchPeriods == {60, 90, 91}

InitFetch == InitWith(EmptyStore)

NextFetch ==
    \/ /\ result = NoResult
       /\ UNCHANGED <<files, tpc, tjob, runs, trained, batch>>
       /\ \/ \E s \in FetchSymbols, p \in FetchPeriods : FetchStart(s, p)
          \/ FetchSleep
          \/ \E resp \in Responses : FetchDownload(resp)
    \/ Return

SpecFetch == InitFetch /\ [][NextFetch]_vars

----------------------------------------------------------------------------
(* train_many, one (symbol, algorithm) pair at a time                      *)

\* train_one(s, a, cfg) from call to return or raise, over the storage fs:
\* what it ended with and the storage it leaves
TrainOne(fs, s, a, cfg, data, run) ==
    LET fit == FitFor(a, cfg, data)
        key == ModelKey(s)
        f1  == Write(fs, ModelFile(key, a),
                     Content("model", run, s, a, fit.seq_len, <<>>, fit.fit_cols))
        f2  == IF a \in ScaledAlgos
               THEN Write(f1, PipeFile(key, a),
                          Content("pipeline", run, s, a, fit.seq_len,
                                  fit.feature_cols, fit.fit_cols))
               ELSE f1
    IN
    IF a \notin Algorithms
    THEN [outcome |-> "ValueError: Unknown algorithm", files |-> fs]
    ELSE IF ~fit.ok THEN [outcome |-> fit.error, files |-> fs]
    ELSE [outcome |-> "ok", files |-> f2]

\* results[s][algo] = "ok" / f"error: {e}"
StatusOf(outcome) == IF outcome = "ok" THEN <<"ok">> ELSE <<"error: ", outcome>>

\* an assignment that forgets the statuses the symbol already has
RecordStatusAlone(results, s, a, status) ==
    [results EXCEPT ![s] = (a :> status)]

\* results[s][algo] = status
RecordStatus(results, s, a, status) ==
    [results EXCEPT ![s] = (a :> status) @@ @]

\* results[s] = {}
ResetSymbol(results, s) == (s :> <<>>) @@ results

\* train_many(symbols, algorithms, cfg) is entered; max_runs bounds the
\* train_one calls of all batches
ManyStart(symbols, algos, max_runs) ==
    /\ batch.pc = "idle"
    /\ runs + Len(symbols) * Len(algos) <= max_runs
    /\ batch' = [pc |-> "symbol", symbols |-> symbols, algos |-> algos,
                 i |-> 1, j |-> 1, results |-> <<>>, attempts |-> <<>>]
    /\ UNCHANGED <<files, runs, trained, result>>

\* "for s in symbols: results[s] = {}", and "return results" after the last
ManyNextSymbol ==
    /\ batch.pc = "symbol"
    /\ IF batch.i > Len(batch.symbols) THEN
           /\ result' = [op |-> "train_many", symbols |-> batch.symbols,
                         algos |-> batch.algos, results |-> batch.results,
                         attempts |-> batch.attempts]
           /\ batch' = NoBatch
       ELSE
           /\ batch' = [batch EXCEPT
                  !.results = ResetSymbol(@, batch.symbols[batch.i]),
                  !.pc = IF batch.algos = <<>> THEN "symbol" ELSE "algo",
                  !.i  = IF batch.algos = <<>> THEN @ + 1 ELSE @,
                  !.j  = 1]
           /\ UNCHANGED result
    /\ UNCHANGED <<files, runs, trained>>

\* "for algo in algorithms: try: train_one(s, algo, cfg) ... except Exception"
ManyTrain(cfg, data) ==
    LET s    == batch.symbols[batch.i]
        a    == batch.algos[batch.j]
        one  == TrainOne(files, s, a, cfg, data, runs + 1)
        last == batch.j = Len(batch.algos)
    IN
    /\ batch.pc = "algo"
    /\ files' = one.files
    /\ runs' = IF one.outcome = "ok" THEN runs + 1 ELSE runs
    /\ trained' = IF one.outcome = "ok" THEN trained \cup {<<s, a>>} ELSE trained
    /\ batch' = [batch EXCEPT
           !.results  = RecordStatus(@, s, a, StatusOf(one.outcome)),
           !.attempts = Append(@, [symbol |-> s, algo |-> a,
                                   returned |-> one.outcome = "ok"]),
           !.pc = IF last THEN "symbol" ELSE "algo",
           !.i  = IF last THEN @ + 1 ELSE @,
           !.j  = IF last THEN 1 ELSE @ + 1]
    /\ UNCHANGED result

\* the lists the training endpoint passes: empty, one, several, repeated
ManySymbols ==
    {<<>>, <<<<"AAPL">>>>, <<<<"AAPL">>, <<"TCS", ".", "NS">>>>,
     <<<<"AAPL">>, <<"AAPL">>>>}

ManyAlgos ==
    {<<>>, <<lstm>>, <<lstm, arima>>, <<arima, arima>>, <<svm, xgboost>>}

\* the train_one calls the batches of one behaviour of SpecMany hold
MaxBatchRuns == 4

InitMany == InitWith(EmptyStore)

NextMany ==
    \/ /\ result = NoResult
       /\ UNCHANGED <<tpc, tjob, fcs>>
       /\ \/ \E ss \in ManySymbols, as \in ManyAlgos : ManyStart(ss, as, MaxBatchRuns)
          \/ ManyNextSymbol
          \/ \E data \in {NoData, FullData} : ManyTrain(DefaultConfig, data)
    \/ Return

SpecMany == InitMany /\ [][NextMany]_vars

----------------------------------------------------------------------------
(* clean_ohlcv on frames                                                   *)

\* A frame is [cols, rows]: the set of its columns and the sequence of its
\* rows, each row a record with one cell for each column.  A cell is undefined
\* (NaN) or a number.  A price is held as its logarithm in integer units, so
\* that a log-return is a difference of two cells; a price that is zero or
\* negative has no logarithm and is the cell NonPos.  A volume is held as it is.
NaN == [kind |-> "nan", v |-> 0]

NonPos == [kind |-> "nonpos", v |-> 0]

Num(v) == [kind |-> "num", v |-> v]

IsNaN(c) == c.kind = "nan"

\* the values of a function on 1..n as a list
AsList(f) == SubSeq(f, 1, Len(f))

\* the column c of the frame, top to bottom
Column(df, c) == AsList([i \in 1..Len(df.rows) |-> df.rows[i][c]])

\* df[c] = values
SetColumn(df, c, values) ==
    [df EXCEPT !.rows =
        AsList([i \in 1..Len(df.rows) |-> [df.rows[i] EXCEPT ![c] = values[i]]])]

\* Series.ffill: an undefined cell takes the last defined cell above it
FFill(s) ==
    AsList([i \in 1..Len(s) |->
        LET above == {j \in 1..i : ~IsNaN(s[j])} IN
        IF above = {} THEN NaN
        ELSE s[CHOOSE j \in above : \A k \in above : k <= j]])

\* Series.bfill: an undefined cell takes the first defined cell below it
BFill(s) ==
    AsList([i \in 1..Len(s) |->
        LET below == {j \in i..Len(s) : ~IsNaN(s[j])} IN
        IF below = {} THEN NaN
        ELSE s[CHOOSE j \in below : \A k \in below : j <= k]])

\* df.ffill(); df.bfill(), one column after the other
RECURSIVE FillColumns(_, _)
FillColumns(df, cols) ==
    IF cols = {} THEN df
    ELSE LET c == CHOOSE c \in cols : TRUE IN
         FillColumns(SetColumn(df, c, BFill(FFill(Column(df, c)))), cols \ {c})

FillAll(df) == FillColumns(df, df.cols)

RECURSIVE SumSeq(_)
SumSeq(s) == IF s = <<>> THEN 0 ELSE s[1] + SumSeq(Tail(s))

\* "if len(df) > 30"
OutlierMinRows == 30

\* zscore_threshold = 4.0
ZThreshold == 4

\* the rows whose log-return has |z| above the threshold (scipy zscore,
\* population deviation): |r - S/m| / sqrt(Q/m - (S/m)^2) > z, squared and
\* multiplied by m*m; a series without deviation has no such row
BadRows(closes) ==
    LET n   == Len(closes)
        ret == AsList([i \in 1..(n - 1) |-> closes[i + 1].v - closes[i].v])
        m   == n - 1
        S   == SumSeq(ret)
        Q   == SumSeq(AsList([i \in 1..m |-> ret[i] * ret[i]]))
    IN {i \in 2..n :
          (m * ret[i - 1] - S) * (m * ret[i - 1] - S)
              > ZThreshold * ZThreshold * (m * Q - S * S)}

\* df.loc[bad_idx, "Close"] = nan; df["Close"].ffill(inplace=True).  The
\* second statement fills a column taken out of the frame: it reaches the
\* frame where pandas hands out the column itself (inplace) and leaves the
\* frame as it is where pandas hands out a copy (copy-on-write)
Winsorise(df, inplace) ==
    LET closes == Column(df, "Close")
        bad    == BadRows(closes)
        marked == AsList([i \in 1..Len(closes) |-> IF i \in bad THEN NaN ELSE closes[i]])
    IN
    IF Len(df.rows) > OutlierMinRows /\ bad # {}
    THEN SetColumn(df, "Close", IF inplace THEN FFill(marked) ELSE marked)
    ELSE df

\* Series.clip(lower=0)
ClipLow(s) ==
    AsList([i \in 1..Len(s) |-> IF ~IsNaN(s[i]) /\ s[i].v < 0 THEN Num(0) ELSE s[i]])

\* df["Volume"] = df["Volume"].clip(lower=0); df["Volume"].ffill(inplace=True)
FixVolume(df, inplace) ==
    IF "Volume" \in df.cols
    THEN LET clipped == ClipLow(Column(df, "Volume")) IN
         SetColumn(df, "Volume", IF inplace THEN FFill(clipped) ELSE clipped)
    ELSE df

\* clean_ohlcv up to the outlier step: empty rows dropped, gaps filled, rows
\* without a positive close dropped
Prepared(df) ==
    LET SomeDefined(row) == \E c \in df.cols : ~IsNaN(row[c])
        CloseDefined(row) == ~IsNaN(row["Close"])
        ClosePositive(row) == row["Close"].kind = "num"
        d1 == [df EXCEPT !.rows = SelectSeq(df.rows, SomeDefined)]
        d2 == FillAll(d1)
        d3 == [d2 EXCEPT !.rows = SelectSeq(d2.rows, CloseDefined)]
    IN [d3 EXCEPT !.rows = SelectSeq(d3.rows, ClosePositive)]

\* clean_ohlcv(df)
CleanOhlcv(df, inplace) == FixVolume(Winsorise(Prepared(df), inplace), inplace)

\* raw frames of n rows: closes that alternate around a level, with a lasting
\* jump of the level from row jump on (0: none), an undefined row gap, an
\* undefined close at row hole, a non-positive close at row zero, and a
\* Volume column that is sound, holds a negative or an undefined cell, is
\* undefined throughout, or is missing
JumpHeight == 100

RawFrame(n, jump, gap, hole, zero, vol) ==
    LET cols == IF vol = "absent" THEN {"Open", "Close"} ELSE {"Open", "Close", "Volume"}
        level(i) == 50 + (i % 2) + (IF jump > 0 /\ i >= jump THEN JumpHeight ELSE 0)
        cell(i, c) ==
            IF i = gap THEN NaN
            ELSE IF c = "Close" THEN
                     IF i = hole THEN NaN
                     ELSE IF i = zero THEN NonPos
                     ELSE Num(level(i))
            ELSE IF c = "Open" THEN Num(level(i))
            ELSE IF vol = "allnan" THEN NaN
            ELSE IF vol = "negative" /\ i = 2 THEN Num(0 - 5)
            ELSE IF vol = "undefined" /\ i = 2 THEN NaN
            ELSE Num(1000)
        row(i) ==
            IF vol = "absent"
            THEN [Open |-> cell(i, "Open"), Close |-> cell(i, "Close")]
            ELSE [Open |-> cell(i, "Open"), Close |-> cell(i, "Close"),
                  Volume |-> cell(i, "Volume")]
    IN [cols |-> cols, rows |-> AsList([i \in 1..n |-> row(i)])]

\* the number of rows of the longer raw frames
LongFrame == 34

RawFrames ==
    {RawFrame(n, jump, gap, hole, zero, vol) :
        n \in {3, LongFrame}, jump \in {0, 3, 20}, gap \in {0, 1}, hole \in {0, 1, 2},
        zero \in {0, 3},
        vol \in {"sound", "negative", "undefined", "allnan", "absent"}}

\* one call of clean_ohlcv, and a second one on what it returned
Clean(raw, inplace) ==
    /\ result' = [op |-> "clean_ohlcv", raw |-> raw, inplace |-> inplace,
                  once  |-> CleanOhlcv(raw, inplace),
                  twice |-> CleanOhlcv(CleanOhlcv(raw, inplace), inplace)]
    /\ UNCHANGED <<files, tpc, tjob, runs, trained, fcs, batch>>

\* the outlier step of one call of clean_ohlcv, with the frame it found
CorrectOutliers(raw, inplace) ==
    /\ LET before == Prepared(raw) IN
       result' = [op |-> "outliers", inplace |-> inplace, before |-> before,
                  flagged |-> IF Len(before.rows) > OutlierMinRows
                              THEN BadRows(Column(before, "Close")) ELSE {},
                  after |-> Winsorise(before, inplace)]
    /\ UNCHANGED <<files, tpc, tjob, runs, trained, fcs, batch>>

InitClean == InitWith(EmptyStore)

NextClean ==
    \/ /\ result = NoResult
       /\ \E raw \in RawFrames, inplace \in BOOLEAN : Clean(raw, inplace)
    \/ /\ result = NoResult
       /\ \E raw \in RawFrames, inplace \in BOOLEAN : CorrectOutliers(raw, inplace)
    \/ Return

SpecClean == InitClean /\ [][NextClean]_vars

----------------------------------------------------------------------------
(* build_sequences                                                         *)

\* scaled[lo:hi, :] and scaled[i, c] with Python's indices, which start at 0
PySlice(scaled, lo, hi) == SubSeq(scaled, lo + 1, hi)

PyCell(scaled, i, c) == scaled[i + 1][c + 1]

\* y.append(scaled[i - 1, 0]): the target taken from the last row of the window
TargetInWindow(scaled, i) == PyCell(scaled, i - 1, 0)

\* y.append(scaled[i, 0])
Target(scaled, i) == PyCell(scaled, i, 0)

\* the loop "for i in range(seq_len, len(scaled))" from index i on
RECURSIVE SequencesFrom(_, _, _, _, _)
SequencesFrom(scaled, seq_len, i, X, y) ==
    IF i >= Len(scaled) THEN [X |-> X, y |-> y]
    ELSE SequencesFrom(scaled, seq_len, i + 1,
                       Append(X, PySlice(scaled, i - seq_len, i)),
                       Append(y, Target(scaled, i)))

\* build_sequences(scaled, seq_len)
BuildSequences(scaled, seq_len) == SequencesFrom(scaled, seq_len, seq_len, <<>>, <<>>)

\* scaled arrays of up to MaxRows rows and NumFeatures columns
MaxRows == 4

NumFeatures == 2

ScaledValues == 0..2

MaxWindow == 4

ScaledRows == [1..NumFeatures -> ScaledValues]

ScaledArrays == UNION {[1..n -> ScaledRows] : n \in 0..MaxRows}

BuildSeq(scaled, seq_len) ==
    /\ result' = [op |-> "build_sequences", scaled |-> scaled, seq_len |-> seq_len,
                  built |-> BuildSequences(scaled, seq_len)]
    /\ UNCHANGED <<files, tpc, tjob, runs, trained, fcs, batch>>

InitSeq == InitWith(EmptyStore)

NextSeq ==
    \/ /\ result = NoResult
       /\ \E scaled \in ScaledArrays, seq_len \in 1..MaxWindow : BuildSeq(scaled, seq_len)
    \/ Return

SpecSeq == InitSeq /\ [][NextSeq]_vars

----------------------------------------------------------------------------
(* train_val_split                                                         *)

\* int(a / b): the quotient cut towards zero
Trunc(a, b) == IF a >= 0 THEN a \div b ELSE 0 - ((0 - a) \div b)

\* the position a Python slice bound stands for in a list of n elements
PyBound(n, k) ==
    IF k < 0 THEN (IF n + k > 0 THEN n + k ELSE 0)
    ELSE (IF k < n THEN k ELSE n)

\* X[:split]
PyUpTo(X, split) == SubSeq(X, 1, PyBound(Len(X), split))

\* X[split - 1:]: the second part starts one element early
PyFromEarlier(X, split) == SubSeq(X, PyBound(Len(X), split - 1) + 1, Len(X))

\* X[split:]
PyFrom(X, split) == SubSeq(X, PyBound(Len(X), split) + 1, Len(X))

\* val_ratio is held in tenths: split = int(len(X) * (1.0 - val_ratio))
SplitAt(n, val_tenths) == Trunc(n * (10 - val_tenths), 10)

\* train_val_split(X, y, val_ratio)
TrainValSplit(X, y, val_tenths) ==
    LET split == SplitAt(Len(X), val_tenths) IN
    [X_train |-> PyUpTo(X, split), X_val |-> PyFrom(X, split),
     y_train |-> PyUpTo(y, split), y_val |-> PyFrom(y, split)]

\* a scaled array of n rows in time order whose column 0 is the row's
\* timestamp, so that a window's target is the timestamp of its target row
Stamped(n) == [i \in 1..n |-> [c \in 1..NumFeatures |-> IF c = 1 THEN i ELSE 0]]

MaxSplitRows == 12

MaxSplitWindow == 3

\* val_ratio from 0.0 to 1.2 in tenths
ValTenths == 0..12

\* steps 6 and 7 of run_pipeline
SplitWindows(n, seq_len, val_tenths) ==
    /\ LET built == BuildSequences(Stamped(n), seq_len) IN
       result' = [op |-> "train_val_split", n |-> n, seq_len |-> seq_len,
                  val_tenths |-> val_tenths, y |-> built.y,
                  split |-> TrainValSplit(built.X, built.y, val_tenths)]
    /\ UNCHANGED <<files, tpc, tjob, runs, trained, fcs, batch>>

InitSplit == InitWith(EmptyStore)

NextSplit ==
    \/ /\ result = NoResult
       /\ \E n \in 0..MaxSplitRows, seq_len \in 1..MaxSplitWindow, val_tenths \in ValTenths :
             SplitWindows(n, seq_len, val_tenths)
    \/ Return

SpecSplit == InitSplit /\ [][NextSplit]_vars

----------------------------------------------------------------------------
(* run_pipeline, row by row                                                *)

\* A clean series is the sequence of its closes' moves: moves[i] tells how the
\* close of row i stands to the close of row i - 1 ("up", "down" or "flat";
\* the move of row 1 is not used).

\* sma_50: the longest rolling window of add_technical_indicators; log_return,
\* sma_5, sma_20, atr_14, volume_ratio and momentum_1/5/10 are defined from an
\* earlier row on, the exponential averages from the first
LongestWindow == 50

RsiWindow == 14

BollingerWindow == 20

\* rsi_14: 14 differences are needed, and rs = gain / loss.replace(0, nan) is
\* undefined where the average loss of the window is zero
RsiDefined(moves, i) ==
    /\ i >= RsiWindow + 1
    /\ \E j \in (i - RsiWindow + 1)..i : moves[j] = "down"

\* bb_pct: 20 closes are needed, and the quotient is undefined where the band
\* has no width, the 20 closes being equal
BbPctDefined(moves, i) ==
    /\ i >= BollingerWindow
    /\ \E j \in (i - BollingerWindow + 2)..i : moves[j] # "flat"

\* the row has a value in Close and in every feature column
RowDefined(moves, i, use_features) ==
    use_features =>
        /\ i >= LongestWindow
        /\ RsiDefined(moves, i)
        /\ BbPctDefined(moves, i)

\* df.dropna(subset=used_cols): the positions of the rows that stay
RECURSIVE DropNa(_, _, _)
DropNa(moves, i, use_features) ==
    IF i > Len(moves) THEN <<>>
    ELSE (IF RowDefined(moves, i, use_features) THEN <<i>> ELSE <<>>)
             \o DropNa(moves, i + 1, use_features)

\* min_rows = seq_len, without the 20 extra rows
MinRowsWindowOnly(cfg) == cfg.seq_len

\* min_rows = cfg.seq_len + 20
MinRows(cfg) == cfg.seq_len + MinExtraRows

\* the scaled array, each kept row standing for itself: column 0, the scaled
\* close, holds the row's position in the clean series
ScaledOf(kept) == [k \in 1..Len(kept) |-> [c \in 1..NumFeatures |-> IF c = 1 THEN kept[k] ELSE 0]]

\* run_pipeline from the clean series on (val_ratio 0.1)
RunPipelineRows(cfg, moves) ==
    LET kept == DropNa(moves, 1, cfg.use_features) IN
    IF Len(kept) < MinRows(cfg)
    THEN [ok |-> FALSE, error |-> "ValueError: Not enough clean data", fitted |-> FALSE,
          kept |-> kept]
    ELSE LET built == BuildSequences(ScaledOf(kept), cfg.seq_len) IN
         [ok |-> TRUE, fitted |-> TRUE, kept |-> kept,
          X |-> built.X, y |-> built.y,
          split |-> TrainValSplit(built.X, built.y, 1)]

\* clean series of n rows that fall on every even row and rise on every odd
\* one, but for a run of len rows from row at on (0: none) that all rise or
\* all stay flat
Moves(n, at, len, kind) ==
    [i \in 1..n |->
        IF at > 0 /\ i >= at /\ i < at + len THEN kind
        ELSE IF i % 2 = 0 THEN "down" ELSE "up"]

MaxSeriesRows == 76

CleanSeries ==
    {Moves(n, at, len, kind) :
        n \in 68..MaxSeriesRows, at \in {0, 40, 56}, len \in {5, 14, 20},
        kind \in {"up", "flat"}}

\* short windows, so that series of about 70 rows reach the row check
PipeConfigs == [seq_len : {2, 3}, use_features : BOOLEAN]

Pipeline(cfg, moves) ==
    /\ result' = [op |-> "run_pipeline", cfg |-> cfg, moves |-> moves,
                  pipe |-> RunPipelineRows(cfg, moves)]
    /\ UNCHANGED <<files, tpc, tjob, runs, trained, fcs, batch>>

InitPipe == InitWith(EmptyStore)

NextPipe ==
    \/ /\ result = NoResult
       /\ \E cfg \in PipeConfigs, moves \in CleanSeries : Pipeline(cfg, moves)
    \/ Return

SpecPipe == InitPipe /\ [][NextPipe]_vars

----------------------------------------------------------------------------
(* _safe_load_model                                                        *)

\* What json.loads yields: a dict (a function from keys to values), a list or
\* a leaf.
Dict(kv) == [t |-> "dict", kv |-> kv]

List(items) == [t |-> "list", items |-> items]

Leaf(v) == [t |-> "leaf", v |-> v]

NoKeys == [k \in {} |-> Leaf("")]

QKey == "quantization_config"

\* a patch that looks at the outermost dict only
StripTopOnly(obj) ==
    IF obj.t = "dict"
    THEN Dict([k \in DOMAIN obj.kv \ {QKey} |-> obj.kv[k]])
    ELSE obj

\* _strip_quantization
RECURSIVE StripQuantization(_)
StripQuantization(obj) ==
    IF obj.t = "dict"
    THEN Dict([k \in DOMAIN obj.kv \ {QKey} |-> StripQuantization(obj.kv[k])])
    ELSE IF obj.t = "list"
    THEN List([i \in 1..Len(obj.items) |-> StripQuantization(obj.items[i])])
    ELSE obj

\* the key occurs somewhere in the configuration
RECURSIVE HasQKey(_)
HasQKey(obj) ==
    IF obj.t = "dict"
    THEN QKey \in DOMAIN obj.kv \/ \E k \in DOMAIN obj.kv : HasQKey(obj.kv[k])
    ELSE IF obj.t = "list"
    THEN \E i \in 1..Len(obj.items) : HasQKey(obj.items[i])
    ELSE FALSE

\* a place in the file system: the model directory or the directory of
\* temporary files
Loc(dir, name) == [dir |-> dir, name |-> name]

\* tempfile.mkstemp(suffix=".keras")
TmpFile == [stem |-> <<"tmp">>, ext |-> "keras"]

\* a shim that writes the patched archive over the model file
PatchInPlace(path) == Loc("models", path)

\* the patched archive goes to a fresh temporary file
PatchTarget(path) == Loc("tmp", TmpFile)

\* f.write(...) and os.unlink(...) on the two directories
WriteAt(st, loc, content) == [st EXCEPT ![loc.dir] = (loc.name :> content) @@ @]

UnlinkAt(st, loc) ==
    [st EXCEPT ![loc.dir] = [n \in DOMAIN @ \ {loc.name} |-> @[n]]]

Event(ev, loc, config) == [ev |-> ev, loc |-> loc, config |-> config]

NoError == [type |-> "none", key |-> FALSE]

\* what load_model may raise; key: the text of the error holds
\* "quantization_config"
LoadErrors ==
    {[type |-> "ValueError", key |-> TRUE], [type |-> "ValueError", key |-> FALSE],
     [type |-> "OSError", key |-> FALSE]}

\* a shim that takes every failure for the known one
AnyFailure(err) == err # NoError

\* "quantization_config" in str(first_err)
KnownSignature(err) == err.key

\* _safe_load_model(model_path) over the model directory fs.  env.config is
\* the config.json inside the archive, env.first and env.second what
\* load_model answers the first load and the load of the patched copy
SafeLoadModel(fs, path, env) ==
    LET st0     == [models |-> fs, tmp |-> [n \in {} |-> NoContent]]
        first   == Event("load", Loc("models", path), env.config)
        Done(outcome, error, config, log, st) ==
            [outcome |-> outcome, error |-> error, loaded |-> config, log |-> log,
             files |-> st.models, tmp_left |-> DOMAIN st.tmp]
    IN
    IF env.first = NoError
    THEN Done("loaded", NoError, env.config, <<first>>, st0)
    ELSE IF ~KnownSignature(env.first)
    THEN Done("raised", env.first, Leaf(""), <<first>>, st0)
    ELSE LET patched == StripQuantization(env.config)
             target  == PatchTarget(path)
             st1     == WriteAt(st0, target, fs[path])
             st2     == UnlinkAt(st1, target)
             log     == <<first,
                          Event("read", Loc("models", path), env.config),
                          Event("mkstemp", target, Leaf("")),
                          Event("write", target, patched),
                          Event("load", target, patched),
                          Event("unlink", target, Leaf(""))>>
         IN
         IF env.second = NoError
         THEN Done("loaded", NoError, patched, log, st2)
         ELSE Done("raised", env.second, Leaf(""), log, st2)

\* configurations in the shape Keras writes: a model with a list of layers;
\* the key may sit in the model's dict, in a layer's dict, in the layer's own
\* config and in a dict of a list inside that
LayerConfig(q, inner, deep) ==
    Dict(("class_name" :> Leaf("Dense"))
         @@ (IF q THEN QKey :> Leaf("null") ELSE NoKeys)
         @@ ("config" :>
               Dict(("units" :> Leaf("32"))
                    @@ (IF inner THEN QKey :> Dict("mode" :> Leaf("int8")) ELSE NoKeys)
                    @@ ("constraints" :>
                          List(<<Dict(("name" :> Leaf("max_norm"))
                                      @@ (IF deep THEN QKey :> Leaf("null") ELSE NoKeys))>>)))))

LayerConfigs == {LayerConfig(q, inner, deep) : q \in BOOLEAN, inner \in BOOLEAN, deep \in BOOLEAN}

MaxLayers == 2

ModelConfigs ==
    {Dict(("class_name" :> Leaf("Sequential"))
          @@ (IF top THEN QKey :> Leaf("null") ELSE NoKeys)
          @@ ("config" :> Dict("layers" :> List(layers)))) :
        top \in BOOLEAN, layers \in UNION {[1..n -> LayerConfigs] : n \in 0..MaxLayers}}

\* the known error arises only from a configuration that holds the key
LoadEnvs ==
    {env \in [config : ModelConfigs, first : LoadErrors \cup {NoError},
              second : LoadErrors \cup {NoError}] :
        /\ env.first.key => HasQKey(env.config)
        /\ ~env.first.key => env.second = NoError}

\* "model = _safe_load_model(model_path)" of predict_next_close
LoadModel(path, env) ==
    /\ Exists(files, path)
    /\ LET out == SafeLoadModel(files, path, env) IN
       /\ files' = out.files
       /\ result' = [op |-> "safe_load_model", path |-> path, env |-> env,
                     outcome |-> out.outcome, error |-> out.error,
                     loaded |-> out.loaded, log |-> out.log,
                     tmp_left |-> out.tmp_left]
    /\ UNCHANGED <<tpc, tjob, runs, trained, fcs, batch>>

InitLoad == InitWith(LegacyStore(<<"AAPL">>, lstm))

NextLoad ==
    \/ /\ result = NoResult
       /\ \E env \in LoadEnvs : LoadModel(ModelFile(<<"AAPL">>, lstm), env)
    \/ /\ result = NoResult
       /\ UNCHANGED <<fcs, batch>>
       /\ \E d \in {7, 61}, a \in {lstm, best, arima}, env \in PredictEnvs :
             Predict(<<"aapl">>, d, a, env)
    \/ Return

SpecLoad == InitLoad /\ [][NextLoad]_vars

----------------------------------------------------------------------------
(* Properties                                                              *)

IsPredict == result.op = "predict"

ModelNotFound == "FileNotFoundError"

\* the files of a pair, by the naming convention of its algorithm kind
HasModel(fs, symbol, a) == Exists(fs, ModelFile(ModelKey(symbol), a))

HasPipe(fs, symbol, a) == Exists(fs, PipeFile(ModelKey(symbol), a))

HasScaler(fs, symbol, a) == Exists(fs, ScalerFile(ModelKey(symbol), a))

\* an artifact is persisted for the pair: the model, and for the scaled
\* algorithms a pipeline bundle or a legacy scaler with it
Persisted(fs, symbol, a) ==
    /\ a \in Algorithms
    /\ HasModel(fs, symbol, a)
    /\ a \in ScaledAlgos => HasPipe(fs, symbol, a) \/ HasScaler(fs, symbol, a)

\* the algorithms with a persisted artifact for a symbol
WithArtifacts(fs, symbol) == {a \in Algorithms : Persisted(fs, symbol, a)}

\* C1: whenever predict_next_close applies a persisted scaler (pipeline
\* bundle or legacy scaler file) to data fetched for symbol Y, that scaler
\* was fitted on data of the same symbol Y.
C1_ScalerOfSameSymbol ==
    (IsPredict /\ result.scaler # NoContent) =>
        /\ result.scaler.symbol = result.fixed_symbol
        /\ \A i \in 1..Len(result.fetches) :
               result.fetches[i].symbol = result.scaler.symbol

\* C2: on the current-format path predict_next_close scales the columns in
\* the order Close, then the persisted feature_cols, and that is the order
\* run_pipeline fitted the scalers in and built the training windows from.
C2_ScaledColumnOrder ==
    (IsPredict /\ result.path = "current" /\ result.scaler # NoContent) =>
        /\ result.scaled_cols = <<"Close">> \o result.scaler.feature_cols
        /\ result.scaled_cols = result.scaler.fit_cols

\* a current-format prediction over a bundle trained without Volume, whose
\* feature_cols differ from the default list
C2_Witness ==
    /\ IsPredict
    /\ result.path = "current"
    /\ result.outcome = "ok"
    /\ result.scaler.kind = "pipeline"
    /\ Len(result.scaled_cols) > 1
    /\ result.scaled_cols # <<"Close">> \o FEATURE_COLS

\* C3: once train_one(s, a, cfg) has returned for a canonical symbol s and
\* one of the seven algorithms a, list_available_models() lists a under s.
C3_TrainedIsListed ==
    result.op = "list" =>
        \A p \in trained :
            /\ p[1] \in DOMAIN result.available
            /\ InList(p[2], result.available[p[1]])

\* C4: for every canonical symbol s that normalize_symbol returns, decoding
\* the file-name key gives s back: decode(_model_key(s)) = s.
C4_DecodeInvertsKey ==
    IsPredict =>
        DecodeKey(ModelKey(result.fixed_symbol)) = result.fixed_symbol

\* the symbols that have a persisted artifact
StoredSymbols(fs) ==
    {s \in {fs[n].symbol : n \in DOMAIN fs} : WithArtifacts(fs, s) # {}}

\* the algorithms whose model file exists for a symbol
WithModel(fs, symbol) ==
    {a \in Algorithms : Exists(fs, ModelFile(ModelKey(symbol), a))}

\* lstm, else gru, else cnn_lstm, else the first available
Preferred(has) ==
    IF lstm \in has THEN lstm
    ELSE IF gru \in has THEN gru
    ELSE IF cnn_lstm \in has THEN cnn_lstm
    ELSE Sorted(has)[1]

\* C5: load_best_models maps every symbol that has a persisted artifact to
\* lstm if an lstm model is stored for it, else gru, else cnn_lstm, else its
\* first available algorithm.
C5_BestByPreference ==
    result.op = "list" =>
        \A s \in StoredSymbols(files) :
            /\ s \in DOMAIN result.best_models
            /\ result.best_models[s] = Preferred(WithModel(files, s))

\* C6: predict_next_close with algorithm "best" fails with ModelNotFound
\* only when no algorithm has artifacts for the normalized symbol; when one
\* has, an algorithm that has them is selected.
C6_BestFindsAnArtifact ==
    (IsPredict /\ result.algorithm = best) =>
        LET has == WithArtifacts(files, result.fixed_symbol) IN
        /\ result.outcome = ModelNotFound => has = {}
        /\ has # {} => result.algo_used \in has

\* C7: for one of the seven algorithms, if no artifact is persisted for
\* (normalized symbol, algorithm), predict_next_close fails with ModelNotFound
\* and with no other kind of error.
C7_MissingArtifactIsModelNotFound ==
    ( /\ IsPredict
      /\ result.algorithm \in Algorithms
      /\ ~Persisted(files, result.fixed_symbol, result.algorithm) )
    => /\ result.outcome = ModelNotFound
       /\ result.fetches = <<>>

\* a prediction that asked for an algorithm without artifacts while another
\* algorithm of the symbol has them
C7_Witness ==
    /\ IsPredict
    /\ result.algorithm \in Algorithms
    /\ ~Persisted(files, result.fixed_symbol, result.algorithm)
    /\ WithArtifacts(files, result.fixed_symbol) # {}
    /\ result.outcome = ModelNotFound

\* C8: model_artifacts_exist(s, a) is true exactly when, for lstm, ann, gru,
\* cnn_lstm and xgboost, the model file exists and the pipeline bundle or the
\* legacy scaler file exists; for arima and prophet, the fitted-object file
\* exists; it is false for every other algorithm.
C8_ArtifactsExistExactly ==
    result.op = "exists" =>
        LET s == result.symbol
            a == result.algo
        IN result.value =
              \/ /\ a \in ScaledAlgos
                 /\ HasModel(files, s, a)
                 /\ HasPipe(files, s, a) \/ HasScaler(files, s, a)
              \/ /\ a \in {arima, prophet}
                 /\ HasModel(files, s, a)

\* a legacy pair, model and scaler file without a pipeline bundle, found
C8_Witness ==
    /\ result.op = "exists"
    /\ result.value
    /\ result.algo \in ScaledAlgos
    /\ ~HasPipe(files, result.symbol, result.algo)
    /\ HasScaler(files, result.symbol, result.algo)

\* the model file of the call was loaded: the call got as far as choosing
\* between the pipeline bundle and the legacy scaler
ModelLoaded == result.model # NoContent

\* the algorithm a prediction is about
AlgoOf(r) == IF r.algorithm = best THEN r.algo_used ELSE r.algorithm

\* C9: for lstm, ann, gru, cnn_lstm and xgboost the scheme is resolved only
\* by which companion file exists: the current path is taken only with a
\* pipeline bundle, and always with one (also next to a legacy scaler)
\* once the model is loaded; the legacy path only without a bundle and with
\* a legacy scaler; with neither the call raises ModelNotFound.
C9_SchemeByCompanionFile ==
    (IsPredict /\ AlgoOf(result) \in ScaledAlgos) =>
        LET pipe   == HasPipe(files, result.fixed_symbol, AlgoOf(result))
            scaler == HasScaler(files, result.fixed_symbol, AlgoOf(result))
        IN
        /\ result.path \in {"none", "current", "legacy"}
        /\ result.path = "current" => pipe
        /\ result.path = "legacy" => ~pipe /\ scaler
        /\ (ModelLoaded /\ pipe) => result.path = "current"
        /\ (ModelLoaded /\ ~pipe /\ scaler) => result.path = "legacy"
        /\ (~pipe /\ ~scaler /\ (ModelLoaded \/ result.algorithm # best)) =>
               result.outcome = ModelNotFound

\* the current path taken although a legacy scaler file exists as well
C9_Witness ==
    /\ IsPredict
    /\ AlgoOf(result) \in ScaledAlgos
    /\ HasPipe(files, result.fixed_symbol, AlgoOf(result))
    /\ HasScaler(files, result.fixed_symbol, AlgoOf(result))
    /\ result.path = "current"
    /\ result.outcome = "ok"

\* C10: an input_days below 60 is raised to 60 before any fetch: every fetch
\* period and the window length come from the raised value and the result
\* reports input_days_used = 60; 60 or more is used unchanged.
C10_InputDaysRaised ==
    IsPredict =>
        LET used == IF result.input_days < 60 THEN 60 ELSE result.input_days IN
        /\ \A i \in 1..Len(result.fetches) :
               result.fetches[i].period =
                   used + (IF result.fetches[i].fn = "fetch_close_series" THEN 30 ELSE 90)
        /\ result.tail \in {0, used}
        /\ result.window_rows <= used
        /\ result.outcome = "ok" =>
               /\ result.input_days_used = used
               /\ result.path \in {"current", "legacy"} => result.window_rows = used

\* input_days = 7 served over the current path, both fetches made
C10_Witness ==
    /\ IsPredict
    /\ result.input_days = 7
    /\ Len(result.fetches) = 2
    /\ result.tail = 60
    /\ result.outcome = "ok"
    /\ result.input_days_used = 60

InsufficientData == "ValueError"

\* C11: for lstm, ann, gru, cnn_lstm and xgboost, on either artifact format,
\* when fewer rows than input_days remain to cut the window from,
\* predict_next_close fails with InsufficientData before a scaler is applied.
C11_InsufficientDataTyped ==
    ( /\ IsPredict
      /\ result.path \in {"current", "legacy"}
      /\ result.clean_rows < ClampDays(result.input_days) )
    => /\ result.outcome = InsufficientData
       /\ result.scaler = NoContent

UnknownAlgorithm == "ValueError: Unknown algorithm"

\* C12: train_one with an algorithm outside the seven, and predict_next_close
\* with one outside the seven and other than "best", fail with
\* UnknownAlgorithm, which is not ModelNotFound, and no file of such an
\* algorithm is ever written.
C12_UnknownAlgorithmTyped ==
    /\ (result.op = "train_one" /\ result.algo \notin Algorithms) =>
           result.outcome = UnknownAlgorithm
    /\ (IsPredict /\ result.algorithm \notin Algorithms \cup {best}) =>
           result.outcome = UnknownAlgorithm
    /\ UnknownAlgorithm # ModelNotFound
    /\ \A n \in DOMAIN files : files[n].algo \in Algorithms

DataUnavailable == "ValueError: No data returned"

\* the provider calls and waits of the fetch_close_series call in progress
\* or just completed
FetchLog == IF result.op = "fetch_close_series" THEN result.log ELSE fcs.log

\* C13: one fetch_close_series call asks the provider at most 3 times and
\* stops at the first non-empty answer; it waits 2 s before the second and
\* 4 s before the third attempt and at no other time; it fails with
\* DataUnavailable exactly when all three answers were empty.
C13_FetchRetries ==
    LET log       == FetchLog
        downloads == {i \in 1..Len(log) : log[i].ev = "download"}
        done      == result.op = "fetch_close_series"
    IN
    /\ Cardinality(downloads) <= 3
    /\ Len(log) <= 5
    /\ \A i \in 1..Len(log) :
           IF i % 2 = 1 THEN log[i].ev = "download"
           ELSE log[i].ev = "sleep" /\ log[i].secs = i
    /\ \A i \in downloads : log[i].resp # "empty" => i = Len(log)
    /\ done =>
           /\ log # <<>> /\ Last(log).ev = "download"
           /\ result.outcome = DataUnavailable <=>
                  /\ Cardinality(downloads) = 3
                  /\ \A i \in downloads : log[i].resp = "empty"
           /\ Last(log).resp = "data" => result.outcome = "ok"

\* empty, empty, then data: the call succeeds after waits of 2 s and 4 s
C13_Witness ==
    /\ result.op = "fetch_close_series"
    /\ result.outcome = "ok"
    /\ Len(result.log) = 5
    /\ result.log[2].secs = 2
    /\ result.log[4].secs = 4

\* the (symbol, algorithm) pairs of two lists in symbol-major order
RECURSIVE PairsOf(_, _)
PairsOf(symbols, algos) ==
    IF symbols = <<>> THEN <<>>
    ELSE [j \in 1..Len(algos) |-> <<symbols[1], algos[j]>>]
         \o PairsOf(Tail(symbols), algos)

\* the train_many call in progress or just completed
ManyCall == IF result.op = "train_many" THEN result ELSE batch

\* C14: train_many attempts train_one once for every (symbol, algorithm)
\* pair of its lists, in symbol-major order, goes on after a failure, and
\* returns a map that holds for every pair "ok" if its training returned and
\* a string starting with "error: " if it raised.
C14_TrainManyIsolates ==
    LET call  == ManyCall
        pairs == PairsOf(call.symbols, call.algos)
        att   == call.attempts
        Range(f) == {f[k] : k \in DOMAIN f}
        LastOf(s, a) ==
            CHOOSE k \in 1..Len(att) :
                /\ att[k].symbol = s /\ att[k].algo = a
                /\ \A m \in (k + 1)..Len(att) : ~(att[m].symbol = s /\ att[m].algo = a)
    IN
    /\ Len(att) <= Len(pairs)
    /\ \A k \in 1..Len(att) : <<att[k].symbol, att[k].algo>> = pairs[k]
    /\ result.op = "train_many" =>
           /\ Len(att) = Len(pairs)
           /\ DOMAIN call.results = Range(call.symbols)
           /\ \A s \in Range(call.symbols) :
                  /\ DOMAIN call.results[s] = Range(call.algos)
                  /\ \A a \in Range(call.algos) :
                         IF att[LastOf(s, a)].returned
                         THEN call.results[s][a] = <<"ok">>
                         ELSE /\ StartsWith(call.results[s][a], <<"error: ">>)
                              /\ call.results[s][a] # <<"ok">>

\* a batch of two symbols and two algorithms that went on after its first
\* pair failed and trained a later one
C14_Witness ==
    /\ result.op = "train_many"
    /\ Len(result.attempts) = 4
    /\ ~result.attempts[1].returned
    /\ result.attempts[4].returned
    /\ result.attempts[1].symbol # result.attempts[4].symbol

\* C15: normalize_symbol is deterministic: whatever training, prediction or
\* registry operation happens between two calls on the same ticker, both
\* return the same canonical symbol.
C15_NormalizeDeterministic ==
    [][\A t \in NormTickers :
          NormalizeSymbol(files', t) = NormalizeSymbol(files, t)]_vars

IsNormalize == result.op = "normalize"

\* the ticker as every rule sees it: trimmed and in upper case
Folded(ticker) == Upper(Strip(ticker))

\* C16: normalize_symbol(normalize_symbol(s)) = normalize_symbol(s), and a
\* symbol that already carries a dot suffix is returned unchanged: a ticker
\* that holds a dot and no underscore-style market suffix comes back as its
\* trimmed upper-case form, which is the ticker itself when it is written
\* that way.
C16_NormalizeIdempotent ==
    IsNormalize =>
        /\ result.again = result.value
        /\ ( /\ Contains(result.ticker, ".")
             /\ ~EndsWith(Folded(result.ticker), <<"_", "NS">>) ) =>
               result.value = Folded(result.ticker)

\* a lower-case dotted ticker, returned in upper case, and the dotted symbol
\* returned as it is when normalized again
C16_Witness ==
    /\ IsNormalize
    /\ result.ticker = <<"zzz", ".", "ns">>
    /\ result.value = <<"ZZZ", ".", "NS">>
    /\ result.again = result.value

\* some file named after (symbol, one of the seven algorithms) is stored
HasAnyFile(fs, symbol) ==
    \E a \in Algorithms :
        HasModel(fs, symbol, a) \/ HasPipe(fs, symbol, a) \/ HasScaler(fs, symbol, a)

\* the rules (a) to (f), first applicable first
ByRules(fs, ticker) ==
    LET folded == Folded(ticker)
        s      == IF EndsWith(folded, <<"_", "NS">>)                       \* (a)
                  THEN SubSeq(folded, 1, Len(folded) - 2) \o <<".", "NS">>
                  ELSE folded
        bare   == IF Len(s) = 1 THEN s[1] ELSE ""
        withNS == s \o <<".", "NS">>
    IN
    CASE Contains(s, ".")         -> s                                     \* (b)
      [] ~Contains(s, ".") /\ bare \in US_STOCKS -> s                      \* (c)
      [] ~Contains(s, ".") /\ bare \notin US_STOCKS /\ bare \in INDIAN_STOCKS
                                   -> withNS                               \* (d)
      [] ~Contains(s, ".") /\ bare \notin US_STOCKS \cup INDIAN_STOCKS
         /\ HasAnyFile(fs, withNS) -> withNS                               \* (e)
      [] OTHER                     -> s                                    \* (f)

\* C17: normalize_symbol returns what the first applicable of the rules (a)
\* to (f) gives: "_NS" becomes ".NS"; a symbol with a dot as it is; a bare
\* US name unchanged; a bare Indian name with ".NS"; otherwise the ".NS"
\* form if a file of it is stored; otherwise the bare symbol.
C17_NormalizeByRules ==
    IsNormalize => result.value = ByRules(files, result.ticker)

\* rule (e) applied: a bare name of neither list, with files of its ".NS" form
C17_Witness ==
    /\ IsNormalize
    /\ result.ticker = <<"zzz">>
    /\ result.value = <<"ZZZ", ".", "NS">>

IsClean == result.op = "clean_ohlcv"

\* C18: in the output of clean_ohlcv every close is positive, no cell of any
\* column is undefined, and every volume is at least 0.
C18_CleanIsSound ==
    IsClean =>
        \A i \in 1..Len(result.once.rows) :
            LET row == result.once.rows[i] IN
            /\ row["Close"].kind = "num"
            /\ \A c \in result.once.cols : ~IsNaN(row[c])
            /\ "Volume" \in result.once.cols => row["Volume"].v >= 0

\* C19: clean_ohlcv is idempotent: cleaning a cleaned frame changes nothing.
C19_CleanIdempotent ==
    IsClean => result.twice = result.once

IsBuild == result.op = "build_sequences"

\* C20: build_sequences on n rows with window length L yields exactly
\* max(0, n - L) windows; the window of index i, L <= i < n, is the rows
\* i - L up to but not including i in all columns, and its target is column 0
\* of row i (indices from 0).
C20_WindowsAndTargets ==
    IsBuild =>
        LET n == Len(result.scaled)
            L == result.seq_len
            X == result.built.X
            y == result.built.y
        IN
        /\ Len(X) = (IF n - L > 0 THEN n - L ELSE 0)
        /\ Len(y) = Len(X)
        /\ \A i \in L..(n - 1) :
              /\ Len(X[i - L + 1]) = L
              /\ \A k \in 0..(L - 1) : X[i - L + 1][k + 1] = result.scaled[i - L + k + 1]
              /\ y[i - L + 1] = result.scaled[i + 1][1]

\* two windows of two rows each were cut from four rows whose first column
\* differs from each row to the next
C20_Witness ==
    /\ IsBuild
    /\ result.seq_len = 2
    /\ Len(result.scaled) = 4
    /\ Len(result.built.X) = 2
    /\ \A i \in 1..3 : result.scaled[i][1] # result.scaled[i + 1][1]

IsSplit == result.op = "train_val_split"

\* C21: in a split of time-ordered windows every training window is strictly
\* earlier than every validation window (a window's timestamp being that of
\* its target row), and the two subsets are the windows in their order.
C21_TemporalSplit ==
    IsSplit =>
        /\ \A a \in 1..Len(result.split.y_train), b \in 1..Len(result.split.y_val) :
              /\ result.split.y_train[a] < result.split.y_val[b]
              /\ result.split.X_train[a][result.seq_len][1] + 1 = result.split.y_train[a]
              /\ result.split.X_val[b][result.seq_len][1] + 1 = result.split.y_val[b]
        /\ result.split.y_train \o result.split.y_val = result.y

\* a split with several windows on either side
C21_Witness ==
    /\ IsSplit
    /\ result.seq_len = 2
    /\ Len(result.split.y_train) >= 2
    /\ Len(result.split.y_val) >= 2

IsPipeline == result.op = "run_pipeline"

\* C22: run_pipeline fails with InsufficientData exactly when fewer than
\* seq_len + 20 rows are left after cleaning and the undefined-row drop; on
\* failure no scaler is fitted and nothing is returned, on success at least 20
\* windows are built.
C22_RowCheck ==
    IsPipeline =>
        LET left == Len(result.pipe.kept)
            need == result.cfg.seq_len + 20
        IN
        /\ ~result.pipe.ok <=> left < need
        /\ ~result.pipe.ok =>
              /\ result.pipe.error = "ValueError: Not enough clean data"
              /\ ~result.pipe.fitted
              /\ DOMAIN result.pipe = {"ok", "error", "fitted", "kept"}
        /\ result.pipe.ok =>
              /\ result.pipe.fitted
              /\ Len(result.pipe.X) >= 20
              /\ Len(result.pipe.X) = left - result.cfg.seq_len

\* a pipeline run that passed the row check with no row to spare
C22_Witness ==
    /\ IsPipeline
    /\ result.pipe.ok
    /\ result.cfg.use_features
    /\ Len(result.pipe.kept) = result.cfg.seq_len + 20
    /\ Len(result.pipe.X) = 20

\* C27: the rows removed for undefined values are a leading stretch of the
\* clean series, so every window is seq_len rows at consecutive positions
\* followed at once by its target row.
C27_OnlyWarmUpDropped ==
    IsPipeline =>
        LET kept == result.pipe.kept IN
        /\ \A k \in 1..(Len(kept) - 1) : kept[k + 1] = kept[k] + 1
        /\ kept # <<>> => kept[Len(kept)] = Len(result.moves)
        /\ result.pipe.ok =>
              \A w \in 1..Len(result.pipe.X) :
                  /\ \A k \in 1..(result.cfg.seq_len - 1) :
                        result.pipe.X[w][k + 1][1] = result.pipe.X[w][k][1] + 1
                  /\ result.pipe.y[w] = result.pipe.X[w][result.cfg.seq_len][1] + 1

IsLoad == result.op = "safe_load_model"

LoadsOf(log) == {i \in 1..Len(log) : log[i].ev = "load"}

\* C23: when the first load fails with an error that does not carry the
\* known signature, _safe_load_model raises that error and does nothing else;
\* a patched retry is made only after an error with the signature, and once.
C23_ShimFailsLoudly ==
    IsLoad =>
        /\ (result.env.first # NoError /\ ~result.env.first.key) =>
              /\ result.outcome = "raised"
              /\ result.error = result.env.first
              /\ Len(result.log) = 1
              /\ result.log[1].ev = "load"
              /\ result.log[1].loc = Loc("models", result.path)
        /\ Cardinality(LoadsOf(result.log)) <= 2
        /\ Cardinality(LoadsOf(result.log)) = 2 => result.env.first.key
        /\ (\E i \in 1..Len(result.log) : result.log[i].ev \in {"write", "mkstemp"})
              => result.env.first.key

\* a load that failed without the signature
C23_Witness ==
    /\ IsLoad
    /\ result.env.first = [type |-> "ValueError", key |-> FALSE]
    /\ HasQKey(result.env.config)
    /\ result.outcome = "raised"

\* b is a with the key removed from every dict and nothing else changed
RECURSIVE SameButKey(_, _)
SameButKey(a, b) ==
    /\ a.t = b.t
    /\ a.t = "dict" =>
          /\ DOMAIN b.kv = DOMAIN a.kv \ {QKey}
          /\ \A k \in DOMAIN b.kv : SameButKey(a.kv[k], b.kv[k])
    /\ a.t = "list" =>
          /\ Len(b.items) = Len(a.items)
          /\ \A i \in 1..Len(a.items) : SameButKey(a.items[i], b.items[i])
    /\ a.t = "leaf" => a = b

\* C24: after a failure with the known signature the configuration the retry
\* loads is the stored one with the key removed from every dict at every
\* level, through dicts and lists, and nothing else changed.
C24_PatchedEverywhere ==
    (IsLoad /\ result.env.first.key) =>
        /\ Cardinality(LoadsOf(result.log)) = 2
        /\ \A i \in LoadsOf(result.log) :
              i > 1 => /\ SameButKey(result.env.config, result.log[i].config)
                       /\ ~HasQKey(result.log[i].config)

\* a retry on a configuration that held the key in a layer's dict, in its
\* config and in a dict inside a list
C24_Witness ==
    /\ IsLoad
    /\ result.env.first.key
    /\ result.env.config.kv["config"].kv["layers"].items
          = <<LayerConfig(TRUE, TRUE, TRUE), LayerConfig(FALSE, FALSE, TRUE)>>
    /\ result.outcome = "loaded"
    /\ result.loaded # result.env.config

IsOutlierStep == result.op = "outliers"

\* C26: the outlier step keeps every row in its place and changes nothing
\* but the close of flagged rows, which becomes the close of the nearest
\* earlier row that is not flagged; the first row is never flagged, and a
\* series of 30 rows or fewer is left as it is.
C26_OutlierStepFrame ==
    IsOutlierStep =>
        LET b == result.before.rows
            a == result.after.rows
        IN
        /\ Len(a) = Len(b)
        /\ 1 \notin result.flagged
        /\ Len(b) <= 30 => a = b
        /\ \A i \in 1..Len(b) :
              /\ \A c \in result.before.cols \ {"Close"} : a[i][c] = b[i][c]
              /\ i \notin result.flagged => a[i]["Close"] = b[i]["Close"]
              /\ i \in result.flagged =>
                    \E j \in 1..(i - 1) :
                        /\ j \notin result.flagged
                        /\ \A k \in (j + 1)..(i - 1) : k \in result.flagged
                        /\ a[i]["Close"] = b[j]["Close"]

\* C28: in every state reached by train_one runs and predictions in any
\* order, a scaled algorithm's model file and pipeline bundle that
\* model_artifacts_exist accepts were written by the same training run, and a
\* prediction never applies scalers of another run than its model's.
C28_ModelAndBundleOfOneRun ==
    /\ \A n \in DOMAIN files :
          LET s == files[n].symbol
              a == files[n].algo
              m == ModelFile(ModelKey(s), a)
              b == PipeFile(ModelKey(s), a)
          IN
          (a \in ScaledAlgos /\ ModelArtifactsExist(files, s, a) /\ Exists(files, b))
              => files[m].run = files[b].run
    /\ (IsPredict /\ result.scaler # NoContent) => result.model.run = result.scaler.run

\* C29: the registry queries agree: every algorithm list_available_models
\* lists under a symbol, and the algorithm load_best_models maps a symbol to,
\* has artifacts by model_artifacts_exist.
C29_QueriesAgree ==
    result.op = "list" =>
        /\ \A s \in DOMAIN result.best_models :
              ModelArtifactsExist(files, s, result.best_models[s])
        /\ \A s \in DOMAIN result.available :
              \A i \in 1..Len(result.available[s]) :
                  ModelArtifactsExist(files, s, result.available[s][i])

\* the call handed a window to model.predict of a model train_one wrote
WindowFed ==
    /\ IsPredict
    /\ result.path \in {"current", "legacy"}
    /\ result.model.run > 0
    /\ result.outcome \in {"ok", "ValueError: input shape"}

\* C30: the window predict_next_close hands to the model has as many rows as
\* the sequence length the model was trained with, whatever input_days the
\* caller passed.
C30_WindowOfTrainedLength ==
    WindowFed => result.window_rows = result.model.seq_len

====
